---- MODULE Spec2Model ----
(***************************************************************************)
(* Model of the streaming TAR decoder of boost-iostreams-tar-filter:       *)
(* BaseTarFilterImpl (state, filter, close) and the header field helpers   *)
(* of src/src/base-tar-filter-impl.cxx, driven by a caller that presents   *)
(* an archive in chunks and offers bounded output space per call.          *)
(*                                                                         *)
(* Bytes are integers 0..255.  A 64-bit value (std::size_t, int64_t seen   *)
(* as uint64_t) is three limbs <<a, b, c>> standing for                    *)
(* a * 2^48 + b * 2^24 + c, because TLC's integers are 32 bits wide.       *)
(***************************************************************************)
EXTENDS Integers, Sequences, FiniteSets, TLC

\* ------------------------------------------------------------------------
\* Bounds of the model
\* ------------------------------------------------------------------------
MaxEntries == 1

\* ------------------------------------------------------------------------
\* Program constants
\* ------------------------------------------------------------------------
BlockSize == 512

NameLen == 100

SizeOffset == 124

SizeLen == 12

TypeflagOffset == 156

\* Op applied to the value of e: e is evaluated once, where a LET
\* definition or an operator argument is evaluated again at each use.
Strict(Op(_), e) == CHOOSE r \in {Op(x) : x \in {e}} : TRUE

\* std::min
Min(a, b) == IF a <= b THEN a ELSE b

\* 512 zero bytes, and the first n of them
ZeroBlock == SubSeq([i \in 1..BlockSize |-> 0], 1, BlockSize)

Zeros(n) == SubSeq(ZeroBlock, 1, n)

\* ------------------------------------------------------------------------
\* 64-bit unsigned arithmetic.  A 64-bit value is <<a, b, c>> for
\* a * 2^48 + b * 2^24 + c with a < 2^16, b < 2^24, c < 2^24.
\* ------------------------------------------------------------------------
L16 == 2 ^ 16

L24 == 2 ^ 24

U64Zero == <<0, 0, 0>>

\* ~uint64_t(0)
U64Ones == <<L16 - 1, L24 - 1, L24 - 1>>

\* a value below 2^31 as a 64-bit value
U64(n) == <<0, n \div L24, n % L24>>

\* whether a 64-bit value is below 2^31, and then its value
U64IsSmall(u) == u[1] = 0 /\ u[2] < 128

U64Val(u) == u[2] * L24 + u[3]

\* the eight bytes of a 64-bit value, most significant first
U64Bytes(u) ==
  <<u[1] \div 256, u[1] % 256,
    u[2] \div L16, (u[2] \div 256) % 256, u[2] % 256,
    u[3] \div L16, (u[3] \div 256) % 256, u[3] % 256>>

U64Less(x, y) ==
  \/ x[1] < y[1]
  \/ x[1] = y[1] /\ x[2] < y[2]
  \/ x[1] = y[1] /\ x[2] = y[2] /\ x[3] < y[3]

\* x - y modulo 2^64, limb by limb with borrow
U64Sub(x, y) ==
  LET c  == x[3] - y[3]
      b  == x[2] - y[2] - (IF x[3] < y[3] THEN 1 ELSE 0)
      a  == x[1] - y[1]
              - (IF x[2] - y[2] - (IF x[3] < y[3] THEN 1 ELSE 0) < 0
                 THEN 1 ELSE 0)
  IN <<(a + L16) % L16, (b + L24) % L24, (c + L24) % L24>>

\* (u << 8) | c for a byte c
U64Shl8Or(u, c) ==
  <<((u[1] % 256) * 256) + (u[2] \div L16),
    ((u[2] % L16) * 256) + (u[3] \div L16),
    ((u[3] % L16) * 256) + c>>

\* (u << 3) + d for d < 8: the low three bits are free after the shift
U64Shl3Add(u, d) ==
  <<((u[1] % 8192) * 8) + (u[2] \div 2097152),
    ((u[2] % 2097152) * 8) + (u[3] \div 2097152),
    ((u[3] % 2097152) * 8) + d>>

\* u % 512
U64Mod512(u) == u[3] % 512

\* std::min of a 64-bit value and a small count, which is small
U64MinSmall(u, n) == IF U64IsSmall(u) /\ U64Val(u) < n THEN U64Val(u) ELSE n

INT64_MAX == <<32767, L24 - 1, L24 - 1>>

INT64_MIN == <<32768, 0, 0>>

\* ------------------------------------------------------------------------
\* Header field helpers
\* ------------------------------------------------------------------------
is_zero_block_impl(block) == \A i \in 1..BlockSize : block[i] = 0

\* c ^ neg for neg \in {0, 255} restricted to bit 0x80
HighBit(c) == c \div 128

\* The first loop walks the bytes beyond the low eight: each must equal the
\* sign fill or the value overflows.  c is the (masked) current byte, i the
\* index of c in p, cnt the remaining char_cnt.
RECURSIVE Base256Skip(_, _, _, _, _)
Base256Skip(p, c, i, cnt, neg) ==
  IF cnt > 8
  THEN IF c # neg THEN [overflow |-> TRUE, c |-> c, i |-> i]
       ELSE Base256Skip(p, p[i + 1], i + 1, cnt - 1, neg)
  ELSE [overflow |-> FALSE, c |-> c, i |-> i]

RECURSIVE Base256Fold(_, _, _, _, _)
Base256Fold(p, l, c, i, cnt) ==
  LET Rest(shifted) == Base256Fold(p, shifted, p[i + 1], i + 1, cnt - 1) IN
  IF cnt - 1 > 0
  THEN Strict(Rest, U64Shl8Or(l, c))
  ELSE U64Shl8Or(l, c)

\* parse_base256_impl without the overflow returns of lines 61-62 and
\* 66-67: the low eight bytes are folded whatever precedes them
parse_base256_implUnclamped(p, char_cnt) ==
  LET negative == (p[1] \div 64) % 2 = 1
      l0  == IF negative THEN U64Ones ELSE U64Zero
      i0  == IF char_cnt > 8 THEN char_cnt - 8 + 1 ELSE 1
  IN Base256Fold(p, l0, p[i0], i0, Min(char_cnt, 8))

parse_base256_impl(p, char_cnt) ==
  LET negative == (p[1] \div 64) % 2 = 1
      neg == IF negative THEN 255 ELSE 0
      c0  == IF negative
             THEN (IF p[1] >= 128 THEN p[1] ELSE p[1] + 128)
             ELSE p[1] % 128
      l0  == IF negative THEN U64Ones ELSE U64Zero
      clamp == IF negative THEN INT64_MIN ELSE INT64_MAX
      s   == Base256Skip(p, c0, 1, char_cnt, neg)
  IN IF s.overflow THEN clamp
     ELSE IF HighBit(s.c) # HighBit(neg) THEN clamp
     ELSE Base256Fold(p, l0, s.c, s.i, Min(char_cnt, 8))

\* parse_octal_impl that ends its scan at the first byte that is no octal
\* digit, where line 90 skips it
RECURSIVE OctalUntilNonDigit(_, _, _, _)
OctalUntilNonDigit(p, n, i, result) ==
  LET Rest(r) == OctalUntilNonDigit(p, n, i + 1, r) IN
  IF i > n \/ p[i] < 48 \/ p[i] > 55 THEN result
  ELSE Strict(Rest, U64Shl3Add(result, p[i] - 48))

parse_octal_implStrict(p, n) == OctalUntilNonDigit(p, n, 1, U64Zero)

RECURSIVE OctalFrom(_, _, _, _)
OctalFrom(p, n, i, result) ==
  LET Rest(r) == OctalFrom(p, n, i + 1, r) IN
  IF i > n \/ p[i] = 0 THEN result
  ELSE Strict(Rest, IF p[i] >= 48 /\ p[i] <= 55
                    THEN U64Shl3Add(result, p[i] - 48) ELSE result)

parse_octal_impl(p, n) == OctalFrom(p, n, 1, U64Zero)

SizeField(hdr) == SubSeq(hdr, SizeOffset + 1, SizeOffset + SizeLen)

\* parse_file_size_impl without the base-256 branch of lines 106-108
parse_file_size_implOctalOnly(hdr) ==
  LET Parse(size) == parse_octal_impl(size, SizeLen)
  IN Strict(Parse, SizeField(hdr))

\* parse_file_size_impl that takes a negative result of parse_base256_impl
\* for the size 0, where the cast of line 107 keeps its 64 bits
parse_file_size_implNegativeAsZero(hdr) ==
  LET NonNegative(v) == IF v[1] >= L16 \div 2 THEN U64Zero ELSE v
      Parse(size) ==
        IF size[1] >= 128
        THEN Strict(NonNegative, parse_base256_impl(size, SizeLen))
        ELSE parse_octal_impl(size, SizeLen)
  IN Strict(Parse, SizeField(hdr))

parse_file_size_impl(hdr) ==
  LET Parse(size) ==
        IF size[1] >= 128
        THEN parse_base256_impl(size, SizeLen)
        ELSE parse_octal_impl(size, SizeLen)
  IN Strict(Parse, SizeField(hdr))

RECURSIVE NameLenFrom(_, _)
NameLenFrom(hdr, len) ==
  IF len < NameLen /\ hdr[len + 1] # 0 THEN NameLenFrom(hdr, len + 1) ELSE len

extract_file_name_impl(hdr) == SubSeq(hdr, 1, NameLenFrom(hdr, 0))

is_regular_file(hdr) ==
  hdr[TypeflagOffset + 1] = 48 \/ hdr[TypeflagOffset + 1] = 0

\* ------------------------------------------------------------------------
\* BaseTarFilterImpl::filter
\*
\* A call frame f holds the decoder fields d, the cursors of the call
\* (src_begin, src_end: offsets into the caller's input buf; dest_begin,
\* dest_end: offsets into the output stream), the bytes written through
\* dest_begin in this call, and the return value once the call has returned.
\* ------------------------------------------------------------------------
\* ParseHeader whose padding lacks the outer modulo of line 209: a size
\* that is a multiple of 512 gets 512 bytes of padding
ParseHeaderPaddingWithoutMod(d) ==
  LET tar == d.header_buffer
      Parsed(size) ==
        LET d1 == [d EXCEPT !.file_size_ = size,
                            !.current_file_name = extract_file_name_impl(tar),
                            !.file_bytes_read = 0,
                            !.padding_bytes = BlockSize - U64Mod512(size),
                            !.padding_bytes_skipped = 0]
            d2 == IF is_regular_file(tar)
                  THEN [d1 EXCEPT !.state = "ReadFileData"]
                  ELSE [d1 EXCEPT !.state = "SkipPadding",
                                  !.file_size_ = U64Zero]
        IN [d2 EXCEPT !.header_bytes_read = 0]
  IN Strict(Parsed, parse_file_size_impl(tar))

\* ParseHeader without line 208: the count of bytes the previous entry
\* emitted is carried into the next entry
ParseHeaderKeepingCount(d) ==
  LET tar == d.header_buffer
      Parsed(size) ==
        LET d1 == [d EXCEPT !.file_size_ = size,
                            !.current_file_name = extract_file_name_impl(tar),
                            !.padding_bytes =
                                (BlockSize - U64Mod512(size)) % BlockSize,
                            !.padding_bytes_skipped = 0]
            d2 == IF is_regular_file(tar)
                  THEN [d1 EXCEPT !.state = "ReadFileData"]
                  ELSE [d1 EXCEPT !.state = "SkipPadding",
                                  !.file_size_ = U64Zero]
        IN [d2 EXCEPT !.header_bytes_read = 0]
  IN Strict(Parsed, parse_file_size_impl(tar))

\* ParseHeader that takes every entry for a regular file, without the
\* test of line 212
ParseHeaderAllRegular(d) ==
  LET tar == d.header_buffer
      Parsed(size) ==
        [d EXCEPT !.file_size_ = size,
                  !.current_file_name = extract_file_name_impl(tar),
                  !.file_bytes_read = 0,
                  !.padding_bytes = (BlockSize - U64Mod512(size)) % BlockSize,
                  !.padding_bytes_skipped = 0,
                  !.state = "ReadFileData",
                  !.header_bytes_read = 0]
  IN Strict(Parsed, parse_file_size_impl(tar))

\* lines 205-218: the header is complete and is not all zero
ParseHeader(d) ==
  LET tar == d.header_buffer
      Parsed(size) ==
        LET d1 == [d EXCEPT !.file_size_ = size,
                            !.current_file_name = extract_file_name_impl(tar),
                            !.file_bytes_read = 0,
                            !.padding_bytes =
                                (BlockSize - U64Mod512(size)) % BlockSize,
                            !.padding_bytes_skipped = 0]
            d2 == IF is_regular_file(tar)
                  THEN [d1 EXCEPT !.state = "ReadFileData"]
                  ELSE [d1 EXCEPT !.state = "SkipPadding",
                                  !.file_size_ = U64Zero]
        IN [d2 EXCEPT !.header_bytes_read = 0]
  IN Strict(Parsed, parse_file_size_impl(tar))

\* HeaderComplete that returns true once a header is parsed, where line
\* 220 breaks to the loop
HeaderCompleteReturning(f) ==
  IF is_zero_block_impl(f.d.header_buffer)
  THEN [f EXCEPT !.d.state = "Done", !.returned = TRUE, !.ret = FALSE]
  ELSE [f EXCEPT !.d = Strict(ParseHeader, f.d),
                 !.returned = TRUE, !.ret = TRUE]

\* HeaderComplete without the return of line 203: the loop goes on after
\* the all-zero block
HeaderCompleteWithoutReturn(f) ==
  IF is_zero_block_impl(f.d.header_buffer)
  THEN [f EXCEPT !.d.state = "Done"]
  ELSE [f EXCEPT !.d = Strict(ParseHeader, f.d)]

\* lines 200-219: 512 header bytes are accumulated
HeaderComplete(f) ==
  IF is_zero_block_impl(f.d.header_buffer)
  THEN [f EXCEPT !.d.state = "Done", !.returned = TRUE, !.ret = FALSE]
  ELSE [f EXCEPT !.d = Strict(ParseHeader, f.d)]

\* lines 188-221
ReadHeaderStep(buf, f) ==
  LET d         == f.d
      needed    == BlockSize - d.header_bytes_read
      available == f.src_end - f.src_begin
      to_copy   == Min(needed, available)
      resized   == IF Len(d.header_buffer) < BlockSize
                   THEN d.header_buffer
                          \o Zeros(BlockSize - Len(d.header_buffer))
                   ELSE d.header_buffer
      copied    == SubSeq(resized, 1, d.header_bytes_read)
                     \o SubSeq(buf, f.src_begin + 1, f.src_begin + to_copy)
                     \o SubSeq(resized, d.header_bytes_read + to_copy + 1,
                               BlockSize)
      Copied(d1) ==
        LET f1 == [f EXCEPT !.src_begin = @ + to_copy, !.d = d1] IN
        IF d1.header_bytes_read = BlockSize THEN HeaderComplete(f1) ELSE f1
  IN Strict(Copied, [d EXCEPT !.header_buffer = copied,
                              !.header_bytes_read = @ + to_copy])

\* ReadFileDataStep that consumes min(remaining, src_avail) bytes of the
\* input and writes those of them the output space holds: the rest is lost
ReadFileDataStepDroppingBytes(buf, f) ==
  LET d          == f.d
      remaining  == U64Sub(d.file_size_, U64(d.file_bytes_read))
      src_avail  == f.src_end - f.src_begin
      dest_space == f.dest_end - f.dest_begin
      Copy(to_copy) ==
        [f EXCEPT !.dest = @ \o SubSeq(buf, f.src_begin + 1,
                                       f.src_begin + Min(to_copy, dest_space)),
                  !.src_begin = @ + to_copy,
                  !.dest_begin = @ + Min(to_copy, dest_space),
                  !.d = IF U64(d.file_bytes_read + to_copy) = d.file_size_
                        THEN [d EXCEPT !.file_bytes_read = @ + to_copy,
                                       !.state = "SkipPadding"]
                        ELSE [d EXCEPT !.file_bytes_read = @ + to_copy]]
  IN Strict(Copy, Strict(LAMBDA r : U64MinSmall(r, src_avail), remaining))

\* ReadFileDataStep whose to_copy leaves dest_space out of the minimum of
\* line 228
ReadFileDataStepPastDestEnd(buf, f) ==
  LET d          == f.d
      remaining  == U64Sub(d.file_size_, U64(d.file_bytes_read))
      src_avail  == f.src_end - f.src_begin
      Copy(to_copy) ==
        [f EXCEPT !.dest = @ \o SubSeq(buf, f.src_begin + 1,
                                       f.src_begin + to_copy),
                  !.src_begin = @ + to_copy,
                  !.dest_begin = @ + to_copy,
                  !.d = IF U64(d.file_bytes_read + to_copy) = d.file_size_
                        THEN [d EXCEPT !.file_bytes_read = @ + to_copy,
                                       !.state = "SkipPadding"]
                        ELSE [d EXCEPT !.file_bytes_read = @ + to_copy]]
  IN Strict(Copy, Strict(LAMBDA r : U64MinSmall(r, src_avail), remaining))

\* ReadFileDataStep that applies the all-zero test of line 201 to a block
\* of file data
ReadFileDataStepTestingZeroBlocks(buf, f) ==
  LET d          == f.d
      remaining  == U64Sub(d.file_size_, U64(d.file_bytes_read))
      src_avail  == f.src_end - f.src_begin
      dest_space == f.dest_end - f.dest_begin
      Copy(to_copy) ==
        [f EXCEPT !.dest = @ \o SubSeq(buf, f.src_begin + 1,
                                       f.src_begin + to_copy),
                  !.src_begin = @ + to_copy,
                  !.dest_begin = @ + to_copy,
                  !.d = IF U64(d.file_bytes_read + to_copy) = d.file_size_
                        THEN [d EXCEPT !.file_bytes_read = @ + to_copy,
                                       !.state = "SkipPadding"]
                        ELSE [d EXCEPT !.file_bytes_read = @ + to_copy]]
  IN IF /\ f.src_begin % BlockSize = 0
        /\ f.src_begin + BlockSize <= Len(buf)
        /\ is_zero_block_impl(SubSeq(buf, f.src_begin + 1,
                                     f.src_begin + BlockSize))
     THEN [f EXCEPT !.d.state = "Done", !.returned = TRUE, !.ret = FALSE]
     ELSE Strict(Copy,
                 Strict(LAMBDA r : U64MinSmall(r, Min(src_avail, dest_space)),
                        remaining))

\* ReadFileDataStep that counts one byte fewer than it copies
ReadFileDataStepMiscounting(buf, f) ==
  LET d          == f.d
      remaining  == U64Sub(d.file_size_, U64(d.file_bytes_read))
      src_avail  == f.src_end - f.src_begin
      dest_space == f.dest_end - f.dest_begin
      Copy(to_copy) ==
        [f EXCEPT !.dest = @ \o SubSeq(buf, f.src_begin + 1,
                                       f.src_begin + to_copy),
                  !.src_begin = @ + to_copy,
                  !.dest_begin = @ + to_copy,
                  !.d = IF U64(d.file_bytes_read + to_copy) = d.file_size_
                        THEN [d EXCEPT !.file_bytes_read = @ + to_copy,
                                       !.state = "SkipPadding"]
                        ELSE [d EXCEPT !.file_bytes_read = @ + to_copy - 1]]
  IN Strict(Copy, Strict(LAMBDA r : U64MinSmall(r, Min(src_avail, dest_space)),
                         remaining))

\* lines 223-238
ReadFileDataStep(buf, f) ==
  LET d          == f.d
      remaining  == U64Sub(d.file_size_, U64(d.file_bytes_read))
      src_avail  == f.src_end - f.src_begin
      dest_space == f.dest_end - f.dest_begin
      Copy(to_copy) ==
        [f EXCEPT !.dest = @ \o SubSeq(buf, f.src_begin + 1,
                                       f.src_begin + to_copy),
                  !.src_begin = @ + to_copy,
                  !.dest_begin = @ + to_copy,
                  !.d = IF U64(d.file_bytes_read + to_copy) = d.file_size_
                        THEN [d EXCEPT !.file_bytes_read = @ + to_copy,
                                       !.state = "SkipPadding"]
                        ELSE [d EXCEPT !.file_bytes_read = @ + to_copy]]
  IN Strict(Copy, Strict(LAMBDA r : U64MinSmall(r, Min(src_avail, dest_space)),
                         remaining))

\* SkipPaddingStep whose to_skip is all of the input at hand, without the
\* minimum of line 243
SkipPaddingStepUnbounded(buf, f) ==
  LET d         == f.d
      src_avail == f.src_end - f.src_begin
      Skip(to_skip) ==
        [f EXCEPT !.src_begin = @ + to_skip,
                  !.d = IF d.padding_bytes_skipped + to_skip = d.padding_bytes
                        THEN [d EXCEPT !.padding_bytes_skipped = @ + to_skip,
                                       !.state = "ReadHeader"]
                        ELSE [d EXCEPT !.padding_bytes_skipped = @ + to_skip]]
  IN Strict(Skip, src_avail)

\* lines 240-251
SkipPaddingStep(buf, f) ==
  LET d         == f.d
      remaining == d.padding_bytes - d.padding_bytes_skipped
      src_avail == f.src_end - f.src_begin
      Skip(to_skip) ==
        [f EXCEPT !.src_begin = @ + to_skip,
                  !.d = IF d.padding_bytes_skipped + to_skip = d.padding_bytes
                        THEN [d EXCEPT !.padding_bytes_skipped = @ + to_skip,
                                       !.state = "ReadHeader"]
                        ELSE [d EXCEPT !.padding_bytes_skipped = @ + to_skip]]
  IN Strict(Skip, Min(remaining, src_avail))

\* lines 253-254
DoneStep(buf, f) == [f EXCEPT !.returned = TRUE, !.ret = FALSE]

\* one iteration of the switch
Step(buf, f) ==
  CASE f.d.state = "ReadHeader"   -> ReadHeaderStep(buf, f)
    [] f.d.state = "ReadFileData" -> ReadFileDataStep(buf, f)
    [] f.d.state = "SkipPadding"  -> SkipPaddingStep(buf, f)
    [] f.d.state = "Done"         -> DoneStep(buf, f)

\* LoopCondition without the test of the output range
LoopConditionInputOnly(f) == f.src_begin < f.src_end

\* line 186
LoopCondition(f) == f.src_begin < f.src_end /\ f.dest_begin < f.dest_end

\* LoopExit that returns false where line 258 returns true
LoopExitStopping(f) == [f EXCEPT !.returned = TRUE, !.ret = FALSE]

\* line 258: the loop has ended without a return
LoopExit(f) == [f EXCEPT !.returned = TRUE, !.ret = TRUE]

RECURSIVE FilterLoop(_, _)
FilterLoop(buf, frame) ==
  LET Iterate(f) ==
        IF f.returned THEN f
        ELSE IF LoopCondition(f) THEN FilterLoop(buf, Step(buf, f))
        ELSE LoopExit(f)
  IN Strict(Iterate, frame)

\* filter(src_begin, src_end, dest_begin, dest_end, flush) on decoder d
\* (src, srcEnd, dst, dstEnd stand for the parameters src_begin, src_end,
\* dest_begin, dest_end, whose names the frame's fields keep)
filter(d, buf, src, srcEnd, dst, dstEnd) ==
  FilterLoop(buf, [d |-> d, src_begin |-> src, src_end |-> srcEnd,
                   dest_begin |-> dst, dest_end |-> dstEnd,
                   dest |-> <<>>, returned |-> FALSE, ret |-> TRUE])

\* the member initialisers of BaseTarFilterImpl
Constructed ==
  [state |-> "ReadHeader", header_buffer |-> <<>>, header_bytes_read |-> 0,
   file_size_ |-> U64Zero, file_bytes_read |-> 0, padding_bytes |-> 0,
   padding_bytes_skipped |-> 0, current_file_name |-> <<>>]

\* close without line 269: header_bytes_read keeps its value
closeKeepingHeaderCount(d) ==
  [d EXCEPT !.state = "ReadHeader",
            !.file_bytes_read = 0, !.padding_bytes_skipped = 0,
            !.file_size_ = U64Zero, !.header_buffer = <<>>,
            !.current_file_name = <<>>]

\* BaseTarFilterImpl::close
close(d) ==
  [d EXCEPT !.state = "ReadHeader", !.header_bytes_read = 0,
            !.file_bytes_read = 0, !.padding_bytes_skipped = 0,
            !.file_size_ = U64Zero, !.header_buffer = <<>>,
            !.current_file_name = <<>>]

\* ------------------------------------------------------------------------
\* The archives presented to the decoder (the layout of tar-header.hxx)
\* ------------------------------------------------------------------------
\* The kinds of entry: a regular file by type-flag '0', an empty regular
\* file by a NUL type-flag, a directory, and a pax extended header, which
\* is a non-regular entry that carries a payload.
\* the file name a GNU long-name entry ('L') carries as its payload: 511
\* characters and a NUL, here digits
LongName ==
  SubSeq([i \in 1..BlockSize |->
            IF i = BlockSize THEN 0
            ELSE IF i = TypeflagOffset + 1 THEN 48 ELSE 49], 1, BlockSize)

EntryKind ==
  [file  |-> [name |-> <<104, 105>>, typeflag |-> 48, size |-> 3,
              payload |-> <<104, 105, 10>>],
   empty |-> [name |-> <<101>>, typeflag |-> 0, size |-> 0,
              payload |-> <<>>],
   dir   |-> [name |-> <<100, 47>>, typeflag |-> 53, size |-> 0,
              payload |-> <<>>],
   pax   |-> [name |-> <<120>>, typeflag |-> 120, size |-> 3,
              payload |-> <<112, 97, 120>>],
   longname |-> [name |-> <<76>>, typeflag |-> 76, size |-> BlockSize,
                 payload |-> LongName],
   zeros |-> [name |-> <<122>>, typeflag |-> 48, size |-> BlockSize + 1,
              payload |-> ZeroBlock \o <<122>>]]

Kinds == DOMAIN EntryKind \ {"longname", "zeros"}

\* an octal ASCII size field: eleven digits and a NUL
OctalField(n) ==
  SubSeq([i \in 1..SizeLen |->
            IF i < SizeLen THEN 48 + ((n \div (8 ^ (SizeLen - 1 - i))) % 8)
            ELSE 0], 1, SizeLen)

\* name at offset 0, size at offset 124, type-flag at offset 156; the
\* fields the decoder does not read are left zero
HeaderBlock(e) ==
  e.name \o Zeros(SizeOffset - Len(e.name))
    \o OctalField(e.size)
    \o Zeros(TypeflagOffset - (SizeOffset + SizeLen))
    \o <<e.typeflag>>
    \o Zeros(BlockSize - (TypeflagOffset + 1))

PaddingFor(n) == (BlockSize - (n % BlockSize)) % BlockSize

\* header, payload, and padding to the next block boundary
Entry(e) ==
  HeaderBlock(e) \o e.payload \o Zeros(PaddingFor(Len(e.payload)))

EntryBytes ==
  [file  |-> Entry(EntryKind.file), empty |-> Entry(EntryKind.empty),
   dir   |-> Entry(EntryKind.dir),  pax   |-> Entry(EntryKind.pax),
   longname |-> Entry(EntryKind.longname),
   zeros |-> Entry(EntryKind.zeros)]

RECURSIVE Concat(_, _)
Concat(seqs, i) ==
  IF i > Len(seqs) THEN <<>> ELSE seqs[i] \o Concat(seqs, i + 1)

\* An archive is written as its entries followed by two all-zero blocks;
\* the input presented is that, less its last `cut' bytes.  The inputs
\* decoded are every complete archive of at most MaxEntries entries of
\* the kinds Kinds, the scenarios of two regular files around a directory,
\* of a non-regular entry with a payload before a regular file and of a
\* long-name entry, and a regular file whose archive is truncated in the
\* middle of the first all-zero block.
Scenarios == {<<"file", "dir", "file">>, <<"pax", "file">>, <<"longname">>}

Complete ==
  {[entries |-> e, cut |-> 0] :
     e \in UNION {[1..n -> Kinds] : n \in 0..MaxEntries} \cup Scenarios}

Truncated == {[entries |-> <<"file">>, cut |-> BlockSize + BlockSize \div 2]}

Archives == Complete \cup Truncated

\* the bytes of the entries of a
EntriesBytes(a) ==
  Concat([i \in 1..Len(a.entries) |-> EntryBytes[a.entries[i]]], 1)

Render(a) ==
  LET Cut(whole) == SubSeq(whole, 1, Len(whole) - a.cut)
  IN Strict(Cut, EntriesBytes(a) \o ZeroBlock \o ZeroBlock)

\* a regular file whose payload is an all-zero block, on a block boundary
\* of the archive, and one byte more
ZeroPayloadArchives == {[entries |-> <<"zeros">>, cut |-> 0]}

\* (f @@ <<>> is f, tabulated once)
ArchiveBytes ==
  [a \in Archives \cup ZeroPayloadArchives |-> Render(a)] @@ <<>>

\* the sizes of input range and of output space a call may be given
LargeBuffer == 16384

SrcSizes == {0, 1, LargeBuffer}

DstSizes == {0, 1, LargeBuffer}

\* ------------------------------------------------------------------------
\* State
\* ------------------------------------------------------------------------
VARIABLES
  state, header_buffer, header_bytes_read, file_size_, file_bytes_read,
  padding_bytes, padding_bytes_skipped, current_file_name,
  archive,      \* the archive the caller is decoding
  src_begin,    \* the caller's input cursor: bytes of the archive consumed
  output,       \* the bytes written so far: dest_begin is its length
  ret,          \* what the last filter call returned, "none" before any
  previous      \* the output of the decode a close ended in Done, or NoOutput

decoder_vars ==
  <<state, header_buffer, header_bytes_read, file_size_, file_bytes_read,
    padding_bytes, padding_bytes_skipped, current_file_name>>

vars == <<decoder_vars, archive, src_begin, output, ret, previous>>

NoOutput == <<-1>>

Decoder ==
  [state |-> state, header_buffer |-> header_buffer,
   header_bytes_read |-> header_bytes_read, file_size_ |-> file_size_,
   file_bytes_read |-> file_bytes_read, padding_bytes |-> padding_bytes,
   padding_bytes_skipped |-> padding_bytes_skipped,
   current_file_name |-> current_file_name]

SetDecoder(d) ==
  /\ state' = d.state
  /\ header_buffer' = d.header_buffer
  /\ header_bytes_read' = d.header_bytes_read
  /\ file_size_' = d.file_size_
  /\ file_bytes_read' = d.file_bytes_read
  /\ padding_bytes' = d.padding_bytes
  /\ padding_bytes_skipped' = d.padding_bytes_skipped
  /\ current_file_name' = d.current_file_name

Input == ArchiveBytes[archive]

Init ==
  /\ archive \in Archives
  /\ state = Constructed.state
  /\ header_buffer = Constructed.header_buffer
  /\ header_bytes_read = Constructed.header_bytes_read
  /\ file_size_ = Constructed.file_size_
  /\ file_bytes_read = Constructed.file_bytes_read
  /\ padding_bytes = Constructed.padding_bytes
  /\ padding_bytes_skipped = Constructed.padding_bytes_skipped
  /\ current_file_name = Constructed.current_file_name
  /\ src_begin = 0
  /\ output = <<>>
  /\ ret = "none"
  /\ previous = NoOutput

\* the result of one filter call that offers n bytes of the unconsumed
\* input and m bytes of fresh output space
Call(n, m) ==
  LET Offer(buf) ==
        filter(Decoder, buf, src_begin, Min(src_begin + n, Len(buf)),
               Len(output), Len(output) + m)
  IN Strict(Offer, Input)

Filter(n, m) ==
  \E f \in {Call(n, m)} :
  /\ SetDecoder(f.d)
  /\ src_begin' = f.src_begin
  /\ output' = output \o f.dest
  /\ ret' = IF f.ret THEN "true" ELSE "false"
  /\ UNCHANGED <<archive, previous>>

\* close(), after which the caller decodes the same archive from its start
Close ==
  /\ SetDecoder(close(Decoder))
  /\ previous' = IF state = "Done" THEN output ELSE NoOutput
  /\ src_begin' = 0
  /\ output' = <<>>
  /\ ret' = "none"
  /\ UNCHANGED archive

Next ==
  \/ \E n \in SrcSizes, m \in DstSizes : Filter(n, m)
  \/ Close

Spec == Init /\ [][Next]_vars

\* ------------------------------------------------------------------------
\* What the archives hold, for the properties below
\* ------------------------------------------------------------------------
IsPrefix(s, t) == Len(s) <= Len(t) /\ SubSeq(t, 1, Len(s)) = s

\* a complete archive of regular files and directories
WellFormed(a) ==
  /\ a.cut = 0
  /\ \A i \in 1..Len(a.entries) : a.entries[i] \in {"file", "empty", "dir"}

\* the payloads of the regular files of a, in archive order
Payloads ==
  [a \in Archives |->
     Concat([i \in 1..Len(a.entries) |->
               IF EntryKind[a.entries[i]].typeflag \in {48, 0}
               THEN EntryKind[a.entries[i]].payload
               ELSE <<>>], 1)] @@ <<>>

\* the offsets in a at which a header block starts: each entry's, and the
\* end-marker's
HeaderStarts ==
  [a \in Archives |->
     {Len(Concat([i \in 1..n |-> EntryBytes[a.entries[i]]], 1)) :
        n \in 0..Len(a.entries)}] @@ <<>>

\* the offset of the end-marker of a
EntriesLen == [a \in Archives |-> Len(EntriesBytes(a))] @@ <<>>

\* the output of decoding a with one filter call on a new decoder, the
\* whole input and ample output space at hand
OneShot ==
  [a \in Archives |->
     filter(Constructed, ArchiveBytes[a], 0, Len(ArchiveBytes[a]),
            0, LargeBuffer).dest] @@ <<>>

\* ------------------------------------------------------------------------
\* C1  Chunk-size invariance: however the input is split into chunks and
\* whatever output space each call is given, the output written so far is
\* a prefix of the output of decoding the archive in one call, and it is
\* all of it once the stop signal is returned or the input is used up.
\* ------------------------------------------------------------------------
ChunkSizeInvariance ==
  /\ IsPrefix(output, OneShot[archive])
  /\ (state = "Done" \/ src_begin = Len(Input)) => output = OneShot[archive]

\* the second file's payload is part written: the decode is split over
\* one-byte calls in the middle of an entry
ChunkedMidPayload ==
  /\ archive = [entries |-> <<"file", "dir", "file">>, cut |-> 0]
  /\ state = "ReadFileData"
  /\ file_bytes_read = 1
  /\ output = <<104, 105, 10, 104>>

\* ------------------------------------------------------------------------
\* C2  For a complete archive of regular files and directories the output
\* is the concatenation of the regular files' payloads in archive order:
\* a prefix of it while decoding, all of it at the stop signal.  Headers,
\* padding and directories contribute nothing.
\* ------------------------------------------------------------------------
OutputIsRegularPayloads ==
  WellFormed(archive) =>
    /\ IsPrefix(output, Payloads[archive])
    /\ state = "Done" => output = Payloads[archive]

TwoFilesAndDirectoryDecoded ==
  /\ archive = [entries |-> <<"file", "dir", "file">>, cut |-> 0]
  /\ state = "Done"
  /\ output = <<104, 105, 10, 104, 105, 10>>

\* ------------------------------------------------------------------------
\* C3  A non-regular entry, whatever size its header declares, contributes
\* nothing to the output, and each header accumulation starts exactly at a
\* header block of the archive (the entry after a skipped one is correctly
\* located).
\* ------------------------------------------------------------------------
NonRegularEntriesSkippedAligned ==
  /\ IsPrefix(output, Payloads[archive])
  /\ (state = "ReadHeader" /\ header_bytes_read = 0)
       => src_begin \in HeaderStarts[archive]

\* ------------------------------------------------------------------------
\* C4  Cursor monotonicity and bounds: every filter call from every
\* reachable state returns with the input cursor between its value at entry
\* and src_end, the output cursor between its value at entry and dest_end,
\* and as many bytes written as the output cursor advanced, never more than
\* the space offered.
\* ------------------------------------------------------------------------
CursorBounds ==
  \A n \in SrcSizes, m \in DstSizes :
    \E f \in {Call(n, m)} :
      /\ f.src_end = Min(src_begin + n, Len(Input))
      /\ src_begin <= f.src_begin
      /\ f.src_begin <= f.src_end
      /\ f.dest_end = Len(output) + m
      /\ Len(output) <= f.dest_begin
      /\ f.dest_begin <= f.dest_end
      /\ Len(f.dest) = f.dest_begin - Len(output)
      /\ Len(f.dest) <= m

\* a call has returned with one payload byte written into one byte of space
OneByteWritten ==
  /\ state = "ReadFileData"
  /\ file_bytes_read = 1
  /\ src_begin = BlockSize + 1
  /\ output = <<104>>
  /\ ret = "true"

\* ------------------------------------------------------------------------
\* C5  Once the decoder is in Done, every filter call returns false, for
\* every input range and every output range.
\* ------------------------------------------------------------------------
DoneAlwaysStops ==
  state = "Done" =>
    \A n \in SrcSizes, m \in DstSizes : \E f \in {Call(n, m)} : ~f.ret

\* ------------------------------------------------------------------------
\* C6  filter returns false only with the decoder in Done; Done is entered
\* only with 512 header bytes accumulated, all of them zero, which are the
\* last 512 bytes consumed; an input with no complete all-zero block never
\* gets false.
\* ------------------------------------------------------------------------
StopsOnlyAtEndMarker ==
  /\ ret = "false" => state = "Done"
  /\ state = "Done" =>
       /\ header_bytes_read = BlockSize
       /\ header_buffer = ZeroBlock
       /\ src_begin >= BlockSize
       /\ SubSeq(Input, src_begin - BlockSize + 1, src_begin) = ZeroBlock
  /\ archive \in Truncated => ret # "false" /\ state # "Done"

\* the truncated input is used up, half an all-zero block accumulated
TruncatedInputUsedUp ==
  /\ archive \in Truncated
  /\ src_begin = Len(Input)
  /\ state = "ReadHeader"
  /\ header_bytes_read = BlockSize \div 2
  /\ ret = "true"

IdempotentReset ==
  [][previous' # NoOutput =>
       /\ IsPrefix(output', previous')
       /\ state' = "Done" => output' = previous'
       /\ (state # "Done" /\ state' = "Done") => ret' = "false"]_vars

SecondDecodeDone ==
  /\ previous = <<104, 105, 10, 104, 105, 10>>
  /\ state = "Done"
  /\ output = previous
  /\ ret = "false"

\* ------------------------------------------------------------------------
\* C9  After close, in any reachable state, every field of the decoder
\* has its value in a newly constructed decoder.
\* ------------------------------------------------------------------------
CloseRestoresConstructed == ret = "none" => Decoder = Constructed

\* ------------------------------------------------------------------------
\* C10  In every reachable state header_bytes_read <= 512,
\* file_bytes_read <= file_size_ and padding_bytes_skipped <= padding_bytes.
\* ------------------------------------------------------------------------
CounterBounds ==
  /\ header_bytes_read <= BlockSize
  /\ ~U64Less(file_size_, U64(file_bytes_read))
  /\ padding_bytes_skipped <= padding_bytes

\* the three counters at their bounds together
CountersAtBounds ==
  /\ header_bytes_read = BlockSize
  /\ file_size_ = U64(3)
  /\ file_bytes_read = 3
  /\ padding_bytes = BlockSize - 3
  /\ padding_bytes_skipped = padding_bytes

\* ------------------------------------------------------------------------
\* C11  In every reachable state padding_bytes is
\* (512 - file_size_ mod 512) mod 512 for the stored file_size_, and lies
\* in 0..511.
\* ------------------------------------------------------------------------
PaddingMatchesStoredSize ==
  /\ padding_bytes \in 0..(BlockSize - 1)
  /\ padding_bytes = (BlockSize - U64Mod512(file_size_)) % BlockSize

\* ------------------------------------------------------------------------
\* Single headers presented to the decoder: the size field of each is
\* crafted, the rest of the header is that of HeaderBlock.  A probe is its
\* size field, its type-flag, the bytes that follow the header in the
\* input, and the size its field stands for (expect).
\* ------------------------------------------------------------------------
ProbeHeader(field, typeflag) ==
  <<112>> \o Zeros(SizeOffset - 1)
    \o field
    \o Zeros(TypeflagOffset - (SizeOffset + SizeLen))
    \o <<typeflag>>
    \o Zeros(BlockSize - (TypeflagOffset + 1))

\* n payload bytes 'a'
PayloadOf(n) == SubSeq([i \in 1..n |-> 97], 1, n)

\* entries of the declared sizes of the block-alignment property, as
\* regular files ('0', NUL) and as a directory-typed entry ('5'), each
\* with its payload, its padding and an end-marker
Sizes == {0, 1, 511, 512, 513, 1024}

SizedProbes ==
  {[class |-> "sized", field |-> OctalField(n), typeflag |-> t,
    rest |-> PayloadOf(n) \o Zeros(PaddingFor(n)) \o ZeroBlock,
    expect |-> U64(n)] : n \in Sizes, t \in {48, 0, 53}}

\* a size field in base-256: 0x80, three zero bytes, v in 8 bytes
Base256Field(v) == <<128, 0, 0, 0>> \o U64Bytes(v)

\* values below 2^63, 8,589,934,592 = <<0, 512, 0>> among them
Values ==
  {<<a, b, c>> : a \in {0, 1, 32767}, b \in {0, 512, L24 - 1},
                 c \in {0, 1, 511, L24 - 1}}

RoundTripProbes ==
  {[class |-> "base256", field |-> Base256Field(v), typeflag |-> 48,
    rest |-> <<>>, expect |-> v] : v \in Values}

\* The value of a 12-byte base-256 field is the two's-complement number of
\* 95 bits made of the low 7 bits of its first byte and its other 11
\* bytes, bit 0x40 of the first byte its sign.  It is in the range of
\* int64_t when its top 32 bits all equal the sign: then it is the int64_t
\* of the last 8 bytes; otherwise it is clamped.
Base256Expected(field) ==
  LET negative == (field[1] \div 64) % 2 = 1
      fill     == IF negative THEN 255 ELSE 0
      inRange  == /\ field[1] % 128 = fill % 128
                  /\ \A i \in 2..4 : field[i] = fill
                  /\ field[5] \div 128 = fill \div 128
  IN IF inRange
     THEN <<field[5] * 256 + field[6],
            field[7] * L16 + field[8] * 256 + field[9],
            field[10] * L16 + field[11] * 256 + field[12]>>
     ELSE IF negative THEN INT64_MIN ELSE INT64_MAX

ClampFields ==
  {<<b1, x, x, x, b5>> \o tail :
     b1 \in {128, 129, 191, 192, 255}, x \in {0, 1, 255},
     b5 \in {0, 127, 128, 255},
     tail \in {<<0, 0, 0, 0, 0, 0, 0>>, <<0, 0, 0, 0, 0, 0, 1>>,
               <<255, 255, 255, 255, 255, 255, 255>>}}

ClampProbes ==
  {[class |-> "clamp", field |-> fld, typeflag |-> 48, rest |-> <<>>,
    expect |-> Base256Expected(fld)] : fld \in ClampFields}

\* octal fields: the characters, NUL-filled to 12 bytes, and the base-8
\* value of the digits '0'..'7' before the first NUL
Pad12(s) == s \o Zeros(SizeLen - Len(s))

OctalCases ==
  {<<<<>>, U64Zero>>,
   <<<<32, 32, 32>>, U64Zero>>,
   <<<<49, 50, 32, 51, 52>>, U64(668)>>,
   <<<<32, 55, 55, 55>>, U64(511)>>,
   <<<<49, 97, 50, 98, 51>>, U64(83)>>,
   <<<<49, 56, 50, 57, 51>>, U64(83)>>,
   <<<<49, 50, 0, 55>>, U64(10)>>,
   <<<<49, 200, 50>>, U64(10)>>,
   <<<<48, 48, 48, 48, 48, 48, 48, 48, 48, 48, 51>>, U64(3)>>,
   <<<<48, 48, 48, 48, 48, 48, 48, 49, 55, 53, 48>>, U64(1000)>>,
   <<<<32, 32, 32, 32, 32, 32, 32, 32, 32, 32, 32, 55>>, U64(7)>>,
   <<<<49, 55, 55, 55, 55, 55, 55, 55, 55, 55, 55, 32>>,
     <<0, 127, L24 - 1>>>>,
   <<<<55, 55, 55, 55, 55, 55, 55, 55, 55, 55, 55, 55>>,
     <<0, 4095, L24 - 1>>>>}

OctalProbes ==
  {[class |-> "octal", field |-> Pad12(c[1]), typeflag |-> 48,
    rest |-> <<>>, expect |-> c[2]] : c \in OctalCases}

\* base-256 fields whose sign bit is set or whose value is clamped, each
\* with the 64 bits of its int64_t read as unsigned; the entry is a regular
\* file, with two bytes, padding and the end marker behind its header
SignedCases ==
  {<<<<255, 255, 255, 255, 255, 255, 255, 255, 255, 255, 255, 255>>,
     <<L16 - 1, L24 - 1, L24 - 1>>>>,
   <<<<255, 255, 255, 255, 255, 255, 255, 255, 255, 255, 255, 254>>,
     <<L16 - 1, L24 - 1, L24 - 2>>>>,
   <<<<255, 255, 255, 255, 128, 0, 0, 0, 0, 0, 0, 0>>, <<L16 \div 2, 0, 0>>>>,
   <<<<255, 255, 255, 255, 127, 255, 255, 255, 255, 255, 255, 255>>,
     <<L16 \div 2, 0, 0>>>>,
   <<<<192, 0, 0, 0, 0, 0, 0, 0, 0, 0, 0, 0>>, <<L16 \div 2, 0, 0>>>>,
   <<<<128, 0, 0, 1, 0, 0, 0, 0, 0, 0, 0, 0>>,
     <<L16 \div 2 - 1, L24 - 1, L24 - 1>>>>,
   <<<<128, 0, 0, 0, 128, 0, 0, 0, 0, 0, 0, 0>>,
     <<L16 \div 2 - 1, L24 - 1, L24 - 1>>>>}

SignedProbes ==
  {[class |-> "signed", field |-> c[1], typeflag |-> t,
    rest |-> <<97, 98>> \o Zeros(PaddingFor(2)) \o ZeroBlock \o ZeroBlock,
    expect |-> c[2]] : c \in SignedCases, t \in {48, 0}}

Probes ==
  SizedProbes \cup RoundTripProbes \cup ClampProbes \cup OctalProbes
    \cup SignedProbes

ProbeBytes ==
  [p \in Probes |-> ProbeHeader(p.field, p.typeflag) \o p.rest] @@ <<>>

InitProbes ==
  /\ archive \in Probes
  /\ state = Constructed.state
  /\ header_buffer = Constructed.header_buffer
  /\ header_bytes_read = Constructed.header_bytes_read
  /\ file_size_ = Constructed.file_size_
  /\ file_bytes_read = Constructed.file_bytes_read
  /\ padding_bytes = Constructed.padding_bytes
  /\ padding_bytes_skipped = Constructed.padding_bytes_skipped
  /\ current_file_name = Constructed.current_file_name
  /\ src_begin = 0
  /\ output = <<>>
  /\ ret = "none"
  /\ previous = NoOutput

\* one filter call that offers the next n bytes of the probe's input and
\* ample output space
Present(n) ==
  LET Offer(buf) ==
        filter(Decoder, buf, src_begin, Min(src_begin + n, Len(buf)),
               Len(output), Len(output) + LargeBuffer)
  IN \E f \in {Strict(Offer, ProbeBytes[archive])} :
       /\ SetDecoder(f.d)
       /\ src_begin' = f.src_begin
       /\ output' = output \o f.dest
       /\ ret' = IF f.ret THEN "true" ELSE "false"
       /\ UNCHANGED <<archive, previous>>

\* the driver presents the input a block at a time or all at once
NextProbe == \E n \in {BlockSize, LargeBuffer} : Present(n)

SpecHeaders == InitProbes /\ [][NextProbe]_vars

\* the first header of the probe has just been consumed and parsed
HeaderParsed == src_begin = BlockSize

\* ------------------------------------------------------------------------
\* C12  Block alignment: once a non-zero header is accumulated the padding
\* length is (512 - S mod 512) mod 512 for the size S decoded from its
\* size field, for regular and non-regular entries alike; S = 0, 1, 511,
\* 512, 513, 1024 give 0, 511, 1, 0, 511, 0; and for a regular entry the
\* next header accumulation starts after exactly S payload bytes, all
\* written, and that many padding bytes.
\* ------------------------------------------------------------------------
BlockAlignment ==
  LET S     == U64Val(archive.expect)
      table == (0 :> 0) @@ (1 :> 511) @@ (511 :> 1) @@ (512 :> 0)
                 @@ (513 :> 511) @@ (1024 :> 0)
  IN /\ HeaderParsed =>
          /\ padding_bytes =
               (BlockSize - (archive.expect[3] % BlockSize)) % BlockSize
          /\ padding_bytes_skipped = 0
          /\ archive.class = "sized" => padding_bytes = table[S]
     /\ (archive.class = "sized" /\ archive.typeflag \in {48, 0}) =>
          /\ (state = "ReadHeader" /\ header_bytes_read = 0 /\ src_begin > 0)
               => /\ src_begin = BlockSize + S + table[S]
                  /\ output = PayloadOf(S)
          /\ state = "Done"
               => /\ src_begin = BlockSize + S + table[S] + BlockSize
                  /\ output = PayloadOf(S)

\* the entry of 513 bytes is consumed, payload and 511 bytes of padding
NextHeaderAfter513 ==
  /\ archive.class = "sized"
  /\ archive.typeflag = 48
  /\ archive.expect = U64(513)
  /\ state = "ReadHeader"
  /\ header_bytes_read = 0
  /\ padding_bytes_skipped = 511
  /\ src_begin = 3 * BlockSize

\* ------------------------------------------------------------------------
\* C13  Base-256 round trip: the size field 0x80, three zero bytes and v
\* in 8 big-endian bytes, 0 <= v < 2^63, is decoded to exactly v;
\* 8,589,934,592 is among the values.
\* ------------------------------------------------------------------------
Base256RoundTrip ==
  (archive.class = "base256" /\ HeaderParsed) =>
     /\ state = "ReadFileData"
     /\ file_size_ = archive.expect

EightGiBDecoded ==
  /\ archive.field = <<128, 0, 0, 0, 0, 0, 0, 2, 0, 0, 0, 0>>
  /\ HeaderParsed
  /\ file_size_ = <<0, 512, 0>>

\* ------------------------------------------------------------------------
\* C14  Base-256 overflow clamps: a 12-byte base-256 field whose value is
\* outside the range of int64_t is decoded to INT64_MAX when bit 0x40 of
\* its first byte is clear and to INT64_MIN when it is set; a field whose
\* value is inside the range is decoded to that value.
\* ------------------------------------------------------------------------
Base256Clamps ==
  (archive.class = "clamp" /\ HeaderParsed) =>
     /\ state = "ReadFileData"
     /\ file_size_ = archive.expect

NegativeOverflowClamped ==
  /\ archive.class = "clamp"
  /\ archive.field[1] = 192
  /\ HeaderParsed
  /\ file_size_ = INT64_MIN

\* ------------------------------------------------------------------------
\* C15  Permissive octal parse: a field whose first byte has the high bit
\* clear is decoded to the base-8 value of the characters '0'..'7' before
\* its first NUL, every other byte skipped wherever it occurs; a field
\* without digits is decoded to 0.
\* ------------------------------------------------------------------------
PermissiveOctal ==
  (archive.class = "octal" /\ HeaderParsed) =>
     /\ state = "ReadFileData"
     /\ file_size_ = archive.expect

LettersSkipped ==
  /\ archive.field = Pad12(<<49, 97, 50, 98, 51>>)
  /\ HeaderParsed
  /\ file_size_ = U64(83)

\* ------------------------------------------------------------------------
\* The loop of filter, step by step
\* ------------------------------------------------------------------------
\* the frames the loop of filter goes through from frame: each is the
\* Step of the one before, the last is the frame the loop ends or
\* returns in
RECURSIVE FilterSteps(_, _)
FilterSteps(buf, frame) ==
  LET Iterate(f) ==
        IF f.returned \/ ~LoopCondition(f) THEN <<f>>
        ELSE <<f>> \o FilterSteps(buf, Step(buf, f))
  IN Strict(Iterate, frame)

\* the frames of the call Call(n, m)
Trajectory(n, m) ==
  LET Offer(buf) ==
        FilterSteps(buf, [d |-> Decoder, src_begin |-> src_begin,
                          src_end |-> Min(src_begin + n, Len(buf)),
                          dest_begin |-> Len(output),
                          dest_end |-> Len(output) + m,
                          dest |-> <<>>, returned |-> FALSE, ret |-> TRUE])
  IN Strict(Offer, Input)

\* the decoder of Spec, for the properties of the single steps of the loop
SpecSteps == Init /\ [][Next]_vars

\* ------------------------------------------------------------------------
\* C16  A loop step of filter changes the state only along ReadHeader ->
\* ReadFileData (512 header bytes accumulated, not all zero, type-flag '0'
\* or NUL), ReadHeader -> SkipPadding (the same with any other
\* type-flag), ReadHeader -> Done (512 bytes accumulated, all zero),
\* ReadFileData -> SkipPadding (file_bytes_read = file_size_) and
\* SkipPadding -> ReadHeader (padding_bytes_skipped = padding_bytes); no
\* step leaves Done.
\* ------------------------------------------------------------------------
EdgeAllowed(f, g) ==
  LET s == f.d.state
      t == g.d.state
      accumulated ==
        f.d.header_bytes_read + (g.src_begin - f.src_begin) = BlockSize
      flag == g.d.header_buffer[TypeflagOffset + 1]
  IN \/ s = t
     \/ /\ s = "ReadHeader" /\ t = "ReadFileData"
        /\ accumulated
        /\ g.d.header_buffer # ZeroBlock
        /\ flag \in {48, 0}
     \/ /\ s = "ReadHeader" /\ t = "SkipPadding"
        /\ accumulated
        /\ g.d.header_buffer # ZeroBlock
        /\ flag \notin {48, 0}
     \/ /\ s = "ReadHeader" /\ t = "Done"
        /\ accumulated
        /\ g.d.header_buffer = ZeroBlock
     \/ /\ s = "ReadFileData" /\ t = "SkipPadding"
        /\ U64(g.d.file_bytes_read) = g.d.file_size_
     \/ /\ s = "SkipPadding" /\ t = "ReadHeader"
        /\ g.d.padding_bytes_skipped = g.d.padding_bytes

StateEdges ==
  \A n \in SrcSizes, m \in DstSizes :
    \E tr \in {Trajectory(n, m)} :
      \A i \in 1..(Len(tr) - 1) : EdgeAllowed(tr[i], tr[i + 1])

\* a state that one call reaches from a new decoder through four of the
\* edges: the directory's header is parsed with the first file behind
SeveralEdgesInOneCall ==
  /\ archive = [entries |-> <<"file", "dir", "file">>, cut |-> 0]
  /\ state = "SkipPadding"
  /\ src_begin = 3 * BlockSize
  /\ output = <<104, 105, 10>>

\* ------------------------------------------------------------------------
\* C17  Whenever filter returns true the input cursor is at src_end or
\* the output cursor is at dest_end, and a call with non-empty input,
\* non-empty output space and a state other than Done consumes at least
\* one byte of input.
\* ------------------------------------------------------------------------
TrueOnlyWhenExhausted ==
  \A n \in SrcSizes, m \in DstSizes :
    \E f \in {Call(n, m)} :
      /\ f.ret => f.src_begin = f.src_end \/ f.dest_begin = f.dest_end
      /\ (src_begin < f.src_end /\ m > 0 /\ state # "Done")
           => f.src_begin > src_begin

\* a call has returned true in the middle of the padding, its one byte
\* of input consumed
ReturnedTrueMidPadding ==
  /\ state = "SkipPadding"
  /\ padding_bytes_skipped = 1
  /\ padding_bytes = BlockSize - 3
  /\ ret = "true"

\* ------------------------------------------------------------------------
\* C19  A loop step in ReadHeader or SkipPadding moves only the input
\* cursor (by min(needed, available), by min(remaining padding,
\* available)) and writes nothing; a step in ReadFileData advances the
\* input cursor, the output cursor and file_bytes_read by the same
\* min(remaining file bytes, input available, output available) and writes
\* exactly the bytes it consumes; a step in Done changes neither cursor
\* nor any field of the decoder.
\* ------------------------------------------------------------------------
StepFrame(buf, f, g) ==
  LET k         == g.src_begin - f.src_begin
      src_avail == f.src_end - f.src_begin
      dst_avail == f.dest_end - f.dest_begin
      quiet     == g.dest_begin = f.dest_begin /\ g.dest = f.dest
  IN /\ g.src_end = f.src_end /\ g.dest_end = f.dest_end
     /\ f.d.state = "ReadHeader" =>
          /\ quiet
          /\ k = Min(BlockSize - f.d.header_bytes_read, src_avail)
     /\ f.d.state = "SkipPadding" =>
          /\ quiet
          /\ k = Min(f.d.padding_bytes - f.d.padding_bytes_skipped, src_avail)
          /\ g.d.padding_bytes_skipped = f.d.padding_bytes_skipped + k
     /\ f.d.state = "ReadFileData" =>
          /\ k >= 0 /\ k <= src_avail /\ k <= dst_avail
          /\ ~U64Less(f.d.file_size_, U64(f.d.file_bytes_read + k))
          /\ \/ k = src_avail
             \/ k = dst_avail
             \/ U64(f.d.file_bytes_read + k) = f.d.file_size_
          /\ g.dest_begin = f.dest_begin + k
          /\ g.d.file_bytes_read = f.d.file_bytes_read + k
          /\ g.dest = f.dest \o SubSeq(buf, f.src_begin + 1, f.src_begin + k)
     /\ f.d.state = "Done" =>
          /\ quiet
          /\ k = 0
          /\ g.d = f.d

StepMovesItsCursors ==
  \A n \in SrcSizes, m \in DstSizes :
    \E tr \in {Trajectory(n, m)} :
      \A i \in 1..(Len(tr) - 1) : StepFrame(Input, tr[i], tr[i + 1])

\* two payload bytes are written and one is left: a step in ReadFileData
\* has stopped at the end of the output space
PayloadStepStoppedByOutput ==
  /\ state = "ReadFileData"
  /\ file_bytes_read = 2
  /\ src_begin = BlockSize + 2
  /\ output = <<104, 105>>

\* ------------------------------------------------------------------------
\* C20  A filter call with an empty input range or an empty output range
\* consumes nothing, writes nothing and leaves every field of the decoder
\* as it was, whatever the state.
\* ------------------------------------------------------------------------
EmptyRangeIsNoOp ==
  \A n \in SrcSizes, m \in DstSizes :
    (Min(src_begin + n, Len(Input)) = src_begin \/ m = 0) =>
      \E f \in {Call(n, m)} :
         /\ f.d = Decoder
         /\ f.src_begin = src_begin
         /\ f.dest_begin = Len(output)
         /\ f.dest = <<>>

\* the header of a zero-length regular file is parsed and the call has
\* returned: its transitions to SkipPadding and ReadHeader need no data,
\* and wait for a call with input and output space
ZeroLengthEntryPending ==
  /\ state = "ReadFileData"
  /\ file_size_ = U64Zero
  /\ file_bytes_read = 0
  /\ src_begin = BlockSize
  /\ ret = "true"

\* ------------------------------------------------------------------------
\* The driver of C18
\* ------------------------------------------------------------------------
\* sizes of the chunks and of the output ranges of the driver: none empty
DriverSizes == {1, LargeBuffer}

\* the driver calls filter again with the input that is left as long as
\* the last call did not return false
Drive(n, m) ==
  /\ ret # "false"
  /\ Filter(n, m)

NextLive == \E n \in DriverSizes, m \in DriverSizes : Drive(n, m)

\* weak fairness: the driver goes on calling while a call changes
\* anything
SpecLive == Init /\ [][NextLive]_vars /\ WF_vars(NextLive)

\* a TAR archive as written by an archiver: entries of any kind, whole,
\* and the end marker
Terminated(a) == a.cut = 0

\* ------------------------------------------------------------------------
\* C18  Under the fair driver (chunks of one byte or more, output ranges
\* never empty, a call after every true return) the decoder of an archive
\* that is whole and ends in its all-zero blocks eventually is in Done
\* with false returned.
\* ------------------------------------------------------------------------
DrivenToDone == Terminated(archive) ~> (state = "Done" /\ ret = "false")

\* ------------------------------------------------------------------------
\* The decoder given an archive of ZeroPayloadArchives
\* ------------------------------------------------------------------------
InitZeros ==
  /\ archive \in ZeroPayloadArchives
  /\ state = Constructed.state
  /\ header_buffer = Constructed.header_buffer
  /\ header_bytes_read = Constructed.header_bytes_read
  /\ file_size_ = Constructed.file_size_
  /\ file_bytes_read = Constructed.file_bytes_read
  /\ padding_bytes = Constructed.padding_bytes
  /\ padding_bytes_skipped = Constructed.padding_bytes_skipped
  /\ current_file_name = Constructed.current_file_name
  /\ src_begin = 0
  /\ output = <<>>
  /\ ret = "none"
  /\ previous = NoOutput

SpecZeros == InitZeros /\ [][Next]_vars

\* the payload of the entry, and the offsets of the archive at which the
\* payload, the padding and the end marker start
ZeroPayload == EntryKind.zeros.payload

PayloadStart == BlockSize

PaddingStart == PayloadStart + Len(ZeroPayload)

EndMarkerStart == PaddingStart + PaddingFor(Len(ZeroPayload))

\* ------------------------------------------------------------------------
\* C21  An all-zero block of 512 bytes on a block boundary inside the
\* payload of a regular file is copied to the output as data, and the zero
\* bytes of the padding are skipped: the decoder is in ReadFileData
\* throughout the payload and in SkipPadding throughout the padding, what
\* it has written is always the payload up to the input cursor, and it is
\* in Done only with the whole payload written and the cursor one block
\* past the start of the end marker, however the input is chunked.
\* ------------------------------------------------------------------------
ZeroBlockInPayloadIsData ==
  /\ IsPrefix(output, ZeroPayload)
  /\ (src_begin > PayloadStart /\ src_begin < PaddingStart) =>
        /\ state = "ReadFileData"
        /\ file_bytes_read = src_begin - PayloadStart
        /\ Len(output) = file_bytes_read
  /\ (src_begin >= PaddingStart /\ src_begin < EndMarkerStart) =>
        /\ state = "SkipPadding"
        /\ padding_bytes_skipped = src_begin - PaddingStart
        /\ output = ZeroPayload
  /\ state = "Done" =>
        /\ src_begin = EndMarkerStart + BlockSize
        /\ output = ZeroPayload

\* the all-zero block of the payload is written, and the decoder is
\* reading file data still
ZeroBlockCopied ==
  /\ archive \in ZeroPayloadArchives
  /\ state = "ReadFileData"
  /\ src_begin = PayloadStart + BlockSize
  /\ output = ZeroBlock
  /\ ret = "true"

\* ------------------------------------------------------------------------
\* C22  The int64_t of the base-256 parse becomes the unsigned size by its
\* 64 bits: for a regular entry whose field has the sign bit set or whose
\* value is clamped file_size_ is that number modulo 2^64 and is at least
\* 2^63 - 1, and from the header on the decoder is in ReadFileData, every
\* input byte behind the header is copied to the output, and neither
\* ReadHeader nor Done is reached again.
\* ------------------------------------------------------------------------
SignedSizeSwallowsInput ==
  (archive.class = "signed" /\ src_begin >= BlockSize) =>
     /\ file_size_ = archive.expect
     /\ ~U64Less(file_size_, INT64_MAX)
     /\ state = "ReadFileData"
     /\ file_bytes_read = src_begin - BlockSize
     /\ output = SubSeq(ProbeBytes[archive], BlockSize + 1, src_begin)

\* the size field stood for -1: the end marker is written to the output
\* with all that came before it, and the decoder wants more
EndMarkerSwallowed ==
  /\ archive.class = "signed"
  /\ file_size_ = U64Ones
  /\ src_begin = Len(ProbeBytes[archive])
  /\ Len(output) = 3 * BlockSize
  /\ state = "ReadFileData"
  /\ ret = "true"
====
